---- MODULE Spec2Model ----
(***************************************************************************)
(* Model of fpl_2025_2026_scraper.py: scrape_data (fetch + transform),     *)
(* save_to_github (CSV write + git config/add/status/commit/push) and the  *)
(* __main__ block that chains them.                                        *)
(*                                                                         *)
(* Python values are modelled as follows.                                  *)
(*   int n            [t |-> "int",   v |-> n]                             *)
(*   float x          [t |-> "float", v |-> 10 * x]   (value in tenths)    *)
(*   numeric str "x"  [t |-> "str",   v |-> 10 * x]   (value in tenths)    *)
(*   None             [t |-> "none",  v |-> 0]                             *)
(*   text             a TLA+ string                                        *)
(*   dict             a function whose domain is the set of present keys   *)
(*   list / DataFrame a sequence                                           *)
(* File names and git's porcelain lines are sequences of one-character     *)
(* strings, so that Python's substring test `a in b` is computed.          *)
(***************************************************************************)
EXTENDS Integers, Sequences, FiniteSets, Bags, TLC

VARIABLES pc, response, scraped_df, workfile, index, others, history,
          remote, globalCfg, localCfg, stdout, ops, log

vars == <<pc, response, scraped_df, workfile, index, others, history,
          remote, globalCfg, localCfg, stdout, ops, log>>

\* ------------------------------------------------------------------ bounds
MaxPlayers == 2
MaxTeams == 2

\* ------------------------------------------------------------ python values
PyInt(n) == [t |-> "int", v |-> n]
PyFloat(tenths) == [t |-> "float", v |-> tenths]
NumStr(tenths) == [t |-> "str", v |-> tenths]
PyNone == [t |-> "none", v |-> 0]

\* float(x): an int or a numeric string becomes a float
Float(x) == IF x.t = "int" THEN PyFloat(10 * x.v) ELSE PyFloat(x.v)

\* x / 10.0 for an int x (the result, in tenths, is x itself)
Div10(x) == PyFloat(x.v)

\* dict.get(k, default)
DictGet(d, k, default) == IF k \in DOMAIN d THEN d[k] ELSE default

\* --------------------------------------------------------- record layout
\* fields read with player[...] and divided by 10.0
Div10Fields == {"now_cost", "cost_change_start", "cost_change_start_fall",
                "cost_change_event", "cost_change_event_fall"}

\* fields read with player[...] and passed to float()
FloatFields == {"points_per_game", "selected_by_percent", "influence",
                "creativity", "threat", "ict_index", "form", "value_form",
                "value_season"}

\* fields read with player[...] and copied
CopyFields == {"total_points", "event_points", "goals_scored", "assists",
               "minutes", "clean_sheets", "goals_conceded", "own_goals",
               "penalties_saved", "penalties_missed", "saves", "yellow_cards",
               "red_cards", "bonus", "dreamteam_count", "transfers_in",
               "transfers_out", "transfers_in_event", "transfers_out_event"}

\* fields read with float(player.get(f, 0))
FloatDefaultFields == {"expected_goals", "expected_assists",
                       "expected_goal_involvements", "expected_goals_conceded"}

\* fields read with player.get(f), whose default is None
RankFields == {"influence_rank", "creativity_rank", "threat_rank",
               "ict_index_rank"}

\* every key read with player[...]: its absence raises KeyError
RequiredFields == {"first_name", "web_name", "team", "element_type"}
                    \cup Div10Fields \cup FloatFields \cup CopyFields

\* every key read with player.get(...)
OptionalFields == FloatDefaultFields \cup {"starts", "news"} \cup RankFields

RawFields == RequiredFields \cup OptionalFields

\* the columns of the DataFrame, in the order of the dict literal
Columns == <<"player_name", "club_name", "position_name", "now_cost",
  "total_points", "event_points", "points_per_game", "selected_by_percent",
  "goals_scored", "assists", "minutes", "clean_sheets", "goals_conceded",
  "own_goals", "penalties_saved", "penalties_missed", "saves", "yellow_cards",
  "red_cards", "bonus", "influence", "creativity", "threat", "ict_index",
  "form", "dreamteam_count", "value_form", "value_season", "transfers_in",
  "transfers_out", "transfers_in_event", "transfers_out_event",
  "cost_change_start", "cost_change_start_fall", "cost_change_event",
  "cost_change_event_fall", "expected_goals", "expected_assists",
  "expected_goal_involvements", "expected_goals_conceded", "starts", "news",
  "influence_rank", "creativity_rank", "threat_rank", "ict_index_rank">>

ColumnSet == {Columns[i] : i \in 1..Len(Columns)}

\* ------------------------------------------------------------ the payloads
\* the raw players the payloads are drawn from
PlayerPool == {
  [first_name |-> "Bukayo", web_name |-> "Saka",    team |-> 1, element_type |-> 1, total_points |-> 5],
  [first_name |-> "Declan", web_name |-> "Rice",    team |-> 1, element_type |-> 2, total_points |-> 0],
  [first_name |-> "Cole",   web_name |-> "Palmer",  team |-> 2, element_type |-> 1, total_points |-> 5],
  [first_name |-> "Erling", web_name |-> "Haaland", team |-> 2, element_type |-> 2, total_points |-> 9]}

\* a complete raw element of the API for a player of the pool
RawPlayer(p) ==
  [f \in RawFields |->
     CASE f = "first_name" -> p.first_name
       [] f = "web_name" -> p.web_name
       [] f = "team" -> p.team
       [] f = "element_type" -> p.element_type
       [] f = "total_points" -> PyInt(p.total_points)
       [] f = "news" -> "Knock"
       [] f \in Div10Fields -> PyInt(55)
       [] f \in FloatFields -> NumStr(12)
       [] f \in FloatDefaultFields -> NumStr(3)
       [] f \in RankFields -> PyInt(7)
       [] OTHER -> PyInt(2)]

\* the record without key f
RemoveKey(rec, f) == [k \in DOMAIN rec \ {f} |-> rec[k]]

\* the keys a payload may lack in one of its records
AbsentChoices == {"total_points", "team", "now_cost", "expected_goals",
                  "starts", "news", "influence_rank"}

SeqsUpTo(S, n) == UNION {[1..k -> S] : k \in 0..n}

\* the lists of raw elements: complete records, at most one of them lacking
\* one key
ElementLists ==
  LET full == {[i \in DOMAIN ps |-> RawPlayer(ps[i])] : ps \in SeqsUpTo(PlayerPool, MaxPlayers)}
  IN  full \cup {[es EXCEPT ![i] = RemoveKey(es[i], f)] :
                   <<es, i, f>> \in {t \in full \X (1..MaxPlayers) \X AbsentChoices : t[2] <= Len(t[1])}}

TeamEntries == {[id |-> 1, name |-> "Arsenal"], [id |-> 1, name |-> "Aston Villa"]}
TeamLists == SeqsUpTo(TeamEntries, MaxTeams)

TypeLists == {<<[id |-> 1, singular_name_short |-> "GKP"]>>}

\* the JSON documents: each top-level array present or absent
Payloads ==
  {[k \in {"teams", "element_types", "elements"} |->
      CASE k = "teams" -> ts [] k = "element_types" -> ty [] OTHER -> es] :
     <<ts, ty, es>> \in TeamLists \X TypeLists \X ElementLists}
  \cup {[k \in {"element_types", "elements"} |-> IF k = "elements" THEN es ELSE ty] :
     <<ty, es>> \in TypeLists \X ElementLists}
  \cup {[k \in {"teams", "elements"} |-> IF k = "elements" THEN es ELSE ts] :
     <<ts, es>> \in TeamLists \X ElementLists}
  \cup {[k \in {"teams", "element_types"} |-> IF k = "teams" THEN ts ELSE ty] :
     <<ts, ty>> \in TeamLists \X TypeLists}

NoData == [k \in {} |-> 0]

\* what requests.get / raise_for_status / json() can produce
Responses ==
  {[kind |-> k, data |-> NoData] : k \in {"transport_error", "http_error", "bad_json"}}
  \cup {[kind |-> "ok", data |-> d] : d \in Payloads}

NoResponse == [kind |-> "none", data |-> NoData]

\* ------------------------------------------------------------- scrape_data
LookupNameNoDefault(map, id) == IF id \in DOMAIN map THEN map[id] ELSE "None"

\* map.get(id, 'N/A') of lines 37-38
LookupName(map, id) == DictGet(map, id, "N/A")

DefaultOfOne(c) ==
  CASE c = "news" -> "" [] c \in RankFields -> PyNone [] OTHER -> PyInt(1)

\* the default the program passes to player.get for column c (lines 74-83)
DefaultOf(c) ==
  CASE c = "news" -> "" [] c \in RankFields -> PyNone [] OTHER -> PyInt(0)

None == [isNone |-> TRUE, rows |-> <<>>]
DataFrame(rows) == [isNone |-> FALSE, rows |-> rows]

\* {x['id']: x[name] for x in xs}: a later entry overwrites an earlier one
DictOf(xs, name) ==
  [i \in {xs[j].id : j \in DOMAIN xs} |->
     LET last == CHOOSE j \in DOMAIN xs :
                   /\ xs[j].id = i
                   /\ \A k \in DOMAIN xs : xs[k].id = i => k <= j
     IN  xs[last][name]]

\* the dict appended for one player (lines 34-84), or a KeyError
ProcessPlayer(player, teams_map, positions_map) ==
  IF ~(RequiredFields \subseteq DOMAIN player)
  THEN [exc |-> "KeyError", row |-> NoData]
  ELSE [exc |-> "none", row |->
    [c \in ColumnSet |->
       CASE c = "player_name" -> <<player["first_name"], " ", player["web_name"]>>
         [] c = "club_name" -> LookupName(teams_map, player["team"])
         [] c = "position_name" -> LookupName(positions_map, player["element_type"])
         [] c \in Div10Fields -> Div10(player[c])
         [] c \in FloatFields -> Float(player[c])
         [] c \in FloatDefaultFields -> Float(DictGet(player, c, DefaultOf(c)))
         [] c \in OptionalFields -> DictGet(player, c, DefaultOf(c))
         [] OTHER -> player[c]]]

ProcessAllSkipping(players, teams_map, positions_map) ==
  LET F[i \in 0..Len(players)] ==
        IF i = 0 THEN [exc |-> "none", rows |-> <<>>]
        ELSE LET r == ProcessPlayer(players[i], teams_map, positions_map)
             IN  IF r.exc # "none" THEN F[i - 1]
                 ELSE [exc |-> "none", rows |-> Append(F[i - 1].rows, r.row)]
  IN  F[Len(players)]

\* the for loop of lines 33-84: every record in turn; the first exception
\* leaves the loop
ProcessAll(players, teams_map, positions_map) ==
  LET F[i \in 0..Len(players)] ==
        IF i = 0 THEN [exc |-> "none", rows |-> <<>>]
        ELSE IF F[i - 1].exc # "none" THEN F[i - 1]
        ELSE LET r == ProcessPlayer(players[i], teams_map, positions_map)
             IN  IF r.exc # "none" THEN [exc |-> r.exc, rows |-> <<>>]
                 ELSE [exc |-> "none", rows |-> Append(F[i - 1].rows, r.row)]
  IN  F[Len(players)]

\* rows with row r inserted before the first row that entry k says it precedes
InsertBefore(rows, r, precedes) ==
  LET ks == {k \in 1..Len(rows) : precedes[k]}
      at == IF ks = {} THEN Len(rows) + 1 ELSE CHOOSE k \in ks : \A j \in ks : k <= j
  IN  SubSeq(rows, 1, at - 1) \o <<r>> \o SubSeq(rows, at, Len(rows))

SortValuesAscending(rows, by) ==
  LET F[i \in 0..Len(rows)] ==
        IF i = 0 THEN <<>>
        ELSE InsertBefore(F[i - 1], rows[i],
               [k \in 1..Len(F[i - 1]) |-> rows[i][by].v < F[i - 1][k][by].v])
  IN  F[Len(rows)]

\* df.sort_values(by=..., ascending=False): rows with equal keys keep the
\* order they had (the order of ties is not specified by the program)
SortValues(rows, by) ==
  LET F[i \in 0..Len(rows)] ==
        IF i = 0 THEN <<>>
        ELSE InsertBefore(F[i - 1], rows[i],
               [k \in 1..Len(F[i - 1]) |-> rows[i][by].v > F[i - 1][k][by].v])
  IN  F[Len(rows)]

\* the body of the try block (lines 17-91): the value returned, or the
\* exception raised
TryBody(resp) ==
  CASE resp.kind = "transport_error" -> [exc |-> "RequestException", ret |-> None]
    [] resp.kind = "http_error" -> [exc |-> "RequestException", ret |-> None]
    [] resp.kind = "bad_json" -> [exc |-> "JSONDecodeError", ret |-> None]
    [] OTHER ->
       LET data == resp.data IN
       IF "teams" \notin DOMAIN data \/ "element_types" \notin DOMAIN data
       THEN [exc |-> "KeyError", ret |-> None]
       ELSE
         LET teams_map == DictOf(data["teams"], "name")
             positions_map == DictOf(data["element_types"], "singular_name_short")
             players_data == DictGet(data, "elements", <<>>)
         IN  IF players_data = <<>>
             THEN [exc |-> "none", ret |-> None]
             ELSE LET processed == ProcessAll(players_data, teams_map, positions_map)
                  IN  IF processed.exc # "none"
                      THEN [exc |-> processed.exc, ret |-> None]
                      ELSE [exc |-> "none",
                            ret |-> DataFrame(SortValues(processed.rows, "total_points"))]

ExceptNarrow(exc) == exc \in {"RequestException", "JSONDecodeError"}

\* the except clauses of lines 93-98: RequestException, then Exception
Except(exc) == exc \in {"RequestException", "JSONDecodeError", "KeyError"}

\* scrape_data(): what the caller gets
ScrapeData(resp) ==
  LET b == TryBody(resp)
  IN  IF b.exc = "none" THEN [raised |-> FALSE, value |-> b.ret]
      ELSE IF Except(b.exc) THEN [raised |-> FALSE, value |-> None]
      ELSE [raised |-> TRUE, value |-> None]


\* ---------------------------------------------------------------- __main__
\* output_filename (line 151)
Filename == <<"f", "p", "l", "_", "p", "l", "a", "y", "e", "r", "_", "s", "t", "a", "t", "i", "s", "t", "i", "c", "s", ".", "c", "s", "v">>

ShouldPublishAlways(df) == TRUE

\* the condition of line 157: scraped_df is not None and not scraped_df.empty
ShouldPublish(df) == ~df.isNone /\ df.rows # <<>>

\* ------------------------------------------------------ the git repository
\* the content of a file that does not exist
NoFile == <<>>

\* df.to_csv(file_path, index=False): the header, then one line per row with
\* the cells in column order and no index column
ToCsv(rows) ==
  <<Columns>> \o [i \in 1..Len(rows) |-> [j \in 1..Len(Columns) |-> rows[i][Columns[j]]]]

\* a payload of an earlier run, whose table is what the repository may hold
EarlierResponse ==
  [kind |-> "ok",
   data |-> [k \in {"teams", "element_types", "elements"} |->
      CASE k = "teams" -> <<[id |-> 1, name |-> "Arsenal"]>>
        [] k = "element_types" -> <<[id |-> 1, singular_name_short |-> "GKP"]>>
        [] OTHER -> <<RawPlayer([first_name |-> "Bukayo", web_name |-> "Saka",
                                 team |-> 1, element_type |-> 1, total_points |-> 5])>>]]

\* the committed content of the target file before the run: none (first
\* run) or the CSV of an earlier run
PriorContents == {NoFile, ToCsv(ScrapeData(EarlierResponse).value.rows)}

\* the other paths of the working tree with a pending change, each with the
\* two status letters of `git status --porcelain` (X: index, Y: work tree)
Readme == <<"R", "E", "A", "D", "M", "E", ".", "m", "d">>
Backup == <<"o", "l", "d", "_", "f", "p", "l", "_", "p", "l", "a", "y", "e", "r", "_", "s", "t", "a", "t", "i", "s", "t", "i", "c", "s", ".", "c", "s", "v">>
OtherTrees == {{},
               {[path |-> Readme, x |-> " ", y |-> "M"]},
               {[path |-> Backup, x |-> "?", y |-> "?"]},
               {[path |-> Backup, x |-> "A", y |-> " "]}}

IsStaged(o) == o.x \notin {" ", "?"}

\* the git identities a configuration file can hold before the run
NoIdentity == [name |-> "", email |-> ""]
DevIdentity == [name |-> "dev", email |-> "dev@example.com"]
BotName == "github-actions[bot]"
BotEmail == "github-actions[bot]@users.noreply.github.com"

\* the content of the target file in the last commit
HeadTarget == history[Len(history)].target

\* the porcelain line of the target file, or none when it has no change
TargetLines ==
  LET x == CASE index = HeadTarget -> " "
             [] HeadTarget = NoFile -> "A"
             [] index = NoFile -> "D"
             [] OTHER -> "M"
      y == CASE workfile = index -> " "
             [] workfile = NoFile -> "D"
             [] OTHER -> "M"
  IN  IF index = NoFile /\ HeadTarget = NoFile /\ workfile # NoFile
      THEN {<<"?", "?", " ">> \o Filename}
      ELSE IF x = " " /\ y = " " THEN {}
      ELSE {<<x, y, " ">> \o Filename}

\* the lines `git status --porcelain` prints
Porcelain == TargetLines \cup {<<o.x, o.y, " ">> \o o.path : o \in others}

\* Python's `s in t` for strings: s occurs in t as a substring
IsSubstring(s, t) ==
  \E i \in 0..(Len(t) - Len(s)) : SubSeq(t, i + 1, i + Len(s)) = s

InStdoutNever(name, lines) == FALSE

\* `filename in status_result.stdout` (line 129); the text is the lines
\* joined by newlines, and a name without a newline lies within one line
InStdout(name, lines) == \E l \in lines : IsSubstring(name, l)

\* the configuration file written by `git config --global`
ConfigScopeLocal == "local"
ConfigScope == "global"

CommitMessage == "FPL data update"

\* ----------------------------------------------------------------- actions
Init ==
  /\ pc = "start"
  /\ response = NoResponse
  /\ scraped_df = [raised |-> FALSE, value |-> None]
  /\ workfile \in PriorContents
  /\ index = workfile
  /\ history = <<[message |-> "earlier", target |-> workfile, extra |-> {}]>>
  /\ others \in OtherTrees
  /\ remote = 1
  /\ globalCfg \in {NoIdentity, DevIdentity}
  /\ localCfg = NoIdentity
  /\ stdout = {}
  /\ ops = <<>>
  /\ log = <<>>

repo == <<workfile, index, others, history, remote, globalCfg, localCfg, stdout>>

\* scraped_df = scrape_data() (line 154)
Scrape ==
  /\ pc = "start"
  /\ \E r \in Responses :
       /\ response' = r
       /\ scraped_df' = ScrapeData(r)
  /\ pc' = "scraped"
  /\ UNCHANGED <<repo, ops, log>>

\* the if of lines 157-160
Main ==
  /\ pc = "scraped"
  /\ response' = NoResponse
  /\ IF scraped_df.raised
     THEN pc' = "crashed" /\ log' = log
     ELSE IF ShouldPublish(scraped_df.value)
     THEN pc' = "to_csv" /\ log' = log
     ELSE pc' = "exit" /\ log' = Append(log, "canceling")
  /\ UNCHANGED <<scraped_df, repo, ops>>

\* the except clauses of lines 141-146 after a subprocess ended with `outcome`
Handler(outcome) ==
  IF outcome = "notfound" THEN "git_not_found" ELSE "git_error"

\* one subprocess.run([... ], check=True): the call is recorded; any outcome
\* but "ok" raises, is logged by the handler and ends save_to_github
Checked(op, outcome, next) ==
  /\ ops' = Append(ops, [op |-> op, outcome |-> outcome])
  /\ IF outcome = "ok"
     THEN pc' = next /\ log' = log
     ELSE pc' = "exit" /\ log' = Append(log, Handler(outcome))

\* df.to_csv(file_path, index=False) (lines 105-109), outside the try block
WriteCsv ==
  /\ pc = "to_csv"
  /\ \E outcome \in {"ok", "oserror"} :
       /\ ops' = Append(ops, [op |-> "to_csv", outcome |-> outcome])
       /\ IF outcome = "ok"
          THEN /\ workfile' = ToCsv(scraped_df.value.rows)
               /\ log' = Append(log, "saved")
               /\ pc' = "config_name"
          ELSE /\ workfile' = workfile
               /\ log' = log
               /\ pc' = "crashed"
  /\ UNCHANGED <<response, scraped_df, index, others, history, remote,
                 globalCfg, localCfg, stdout>>

\* the configuration files after `git config <scope> user.<key> <value>`
SetConfig(scope, key, value) ==
  IF scope = "global"
  THEN globalCfg' = [globalCfg EXCEPT ![key] = value] /\ localCfg' = localCfg
  ELSE localCfg' = [localCfg EXCEPT ![key] = value] /\ globalCfg' = globalCfg

\* os.chdir(repo_path) and git config --global user.name (lines 114-117)
ConfigUserName ==
  /\ pc = "config_name"
  /\ \E outcome \in {"ok", "nonzero", "notfound"} :
       /\ Checked("config_name", outcome, "config_email")
       /\ IF outcome = "ok"
          THEN SetConfig(ConfigScope, "name", BotName)
          ELSE UNCHANGED <<globalCfg, localCfg>>
  /\ UNCHANGED <<response, scraped_df, workfile, index, others, history,
                 remote, stdout>>

\* git config --global user.email (line 118)
ConfigUserEmail ==
  /\ pc = "config_email"
  /\ \E outcome \in {"ok", "nonzero"} :
       /\ Checked("config_email", outcome, "add")
       /\ IF outcome = "ok"
          THEN SetConfig(ConfigScope, "email", BotEmail)
          ELSE UNCHANGED <<globalCfg, localCfg>>
  /\ UNCHANGED <<response, scraped_df, workfile, index, others, history,
                 remote, stdout>>

\* git add filename (lines 121-122)
GitAdd ==
  /\ pc = "add"
  /\ \E outcome \in {"ok", "nonzero"} :
       /\ Checked("add", outcome, "status")
       /\ index' = IF outcome = "ok" THEN workfile ELSE index
  /\ UNCHANGED <<response, scraped_df, workfile, others, history, remote,
                 globalCfg, localCfg, stdout>>

\* git status --porcelain, run without check=True (lines 125-128): a
\* non-zero exit raises nothing, and its standard output is empty
GitStatus ==
  /\ pc = "status"
  /\ \E outcome \in {"ok", "nonzero"} :
       /\ ops' = Append(ops, [op |-> "status", outcome |-> outcome])
       /\ stdout' = IF outcome = "ok" THEN Porcelain ELSE {}
  /\ pc' = "check"
  /\ UNCHANGED <<response, scraped_df, workfile, index, others, history,
                 remote, globalCfg, localCfg, log>>

\* the else branch of lines 131-133
NoChanges ==
  /\ pc = "check"
  /\ ~InStdout(Filename, stdout)
  /\ log' = Append(log, "no_changes")
  /\ pc' = "exit"
  /\ UNCHANGED <<response, scraped_df, repo, ops>>

\* what a failing commit does to the index
CommitFailureIndexReset == HeadTarget
CommitFailureIndex == index

\* git commit -m commit_message (lines 129-130): exits non-zero when nothing
\* is staged, and may fail for any other reason
GitCommit ==
  /\ pc = "check"
  /\ InStdout(Filename, stdout)
  /\ LET staged == {o \in others : IsStaged(o)}
         can == index # HeadTarget \/ staged # {}
     IN  \E outcome \in (IF can THEN {"ok"} ELSE {}) \cup {"nonzero"} :
           /\ Checked("commit", outcome, "push")
           /\ IF outcome = "ok"
              THEN /\ history' = Append(history, [message |-> CommitMessage,
                                                  target |-> index,
                                                  extra |-> {o.path : o \in staged}])
                   /\ others' = others \ staged
                   /\ index' = index
              ELSE /\ history' = history
                   /\ others' = others
                   /\ index' = CommitFailureIndex
  /\ UNCHANGED <<response, scraped_df, workfile, remote, globalCfg, localCfg,
                 stdout>>

\* git push (lines 136-139)
GitPush ==
  /\ pc = "push"
  /\ \E outcome \in {"ok", "nonzero"} :
       /\ ops' = Append(ops, [op |-> "push", outcome |-> outcome])
       /\ pc' = "exit"
       /\ IF outcome = "ok"
          THEN remote' = Len(history) /\ log' = Append(log, "pushed")
          ELSE remote' = remote /\ log' = Append(log, Handler(outcome))
  /\ UNCHANGED <<response, scraped_df, workfile, index, others, history,
                 globalCfg, localCfg, stdout>>

Next ==
  \/ Scrape
  \/ Main
  \/ WriteCsv
  \/ ConfigUserName
  \/ ConfigUserEmail
  \/ GitAdd
  \/ GitStatus
  \/ NoChanges
  \/ GitCommit
  \/ GitPush

Spec == Init /\ [][Next]_vars


\* ------------------------------------------------------------- vocabulary
GitOps == {"config_name", "config_email", "add", "status", "commit", "push"}

OpNames == [i \in 1..Len(ops) |-> ops[i].op]

Attempted(op) == \E i \in 1..Len(ops) : ops[i].op = op

Ended(op, outcome) == \E i \in 1..Len(ops) : ops[i] = [op |-> op, outcome |-> outcome]

TimesRun(op) == Cardinality({i \in 1..Len(ops) : ops[i].op = op})

AllOk == \A i \in 1..Len(ops) : ops[i].outcome = "ok"

\* the table handed to save_to_github, as the bytes it writes
NewContent == ToCsv(scraped_df.value.rows)

\* the committed content of the target file when the run began
CommittedContent == history[1].target

Bijections(n) == {f \in [1..n -> 1..n] : \A i, j \in 1..n : f[i] = f[j] => i = j}

SeqToBag(s) ==
  [x \in {s[i] : i \in 1..Len(s)} |-> Cardinality({i \in 1..Len(s) : s[i] = x})]

\* the payload has both lookup arrays and a non-empty player list
HasArrays(resp) ==
  /\ resp.kind = "ok"
  /\ {"teams", "element_types", "elements"} \subseteq DOMAIN resp.data
  /\ resp.data["elements"] # <<>>

\* some record of the payload lacks a key the program reads with player[...]
LacksRequired(resp) ==
  \E i \in 1..Len(resp.data["elements"]) :
     ~(RequiredFields \subseteq DOMAIN resp.data["elements"][i])

\* a failure of the fetch/transform stage
StageFails(resp) == ~HasArrays(resp) \/ LacksRequired(resp)

Returned == pc = "scraped"

\* C1: the publish stage (file write, git commands) runs only when
\* scrape_data returned a non-empty table; on every failure of the
\* fetch/transform stage scrape_data returns None without raising and the
\* run writes no file and runs no git command.
C1_PublishOnlyOnTable ==
  /\ (ops # <<>> \/ pc \notin {"start", "scraped", "exit", "crashed"})
       => /\ ~scraped_df.raised
          /\ ~scraped_df.value.isNone
          /\ scraped_df.value.rows # <<>>
  /\ (Returned /\ StageFails(response))
       => scraped_df = [raised |-> FALSE, value |-> None]
  /\ (pc # "start" /\ scraped_df.value.isNone)
       => /\ ops = <<>>
          /\ workfile = CommittedContent
          /\ Len(history) = 1
          /\ pc \in {"scraped", "exit"}

C1_Witness ==
  /\ pc = "exit"
  /\ scraped_df.value.isNone
  /\ log = <<"canceling">>
  /\ ops = <<>>

\* C2: when the newly written content of the target file is byte-identical
\* to its committed content, the file is written but no git commit and no
\* git push is attempted, whatever the other files of the working tree.
C2_NoCommitWhenIdentical ==
  (Ended("to_csv", "ok") /\ NewContent = CommittedContent)
    => ~Attempted("commit") /\ ~Attempted("push")

\* C3: a run whose content differs from the committed content and in which
\* no git command fails performs write, config name, config email, add,
\* status, commit, push in this order, each once, making exactly one commit
\* and one push; a push is attempted only after a commit that succeeded in
\* the same run.
C3_OneCommitThenPush ==
  /\ (pc = "exit" /\ ops # <<>> /\ AllOk /\ NewContent # CommittedContent)
       => /\ OpNames = <<"to_csv", "config_name", "config_email", "add",
                         "status", "commit", "push">>
          /\ Len(history) = 2
          /\ history[2].target = NewContent
          /\ remote = 2
  /\ \A i \in 1..Len(ops) :
       ops[i].op = "push"
         => \E j \in 1..(i - 1) : ops[j] = [op |-> "commit", outcome |-> "ok"]

C3_Witness ==
  /\ pc = "exit"
  /\ AllOk
  /\ NewContent # CommittedContent
  /\ CommittedContent # NoFile
  /\ Attempted("commit")
  /\ Attempted("push")

\* C4: when a git invocation (config name, config email, add, status,
\* commit, push) exits non-zero, the failure is logged as an error, no later
\* git step runs, and save_to_github returns; a missing git executable is
\* logged as its own condition.
C4_EveryGitFailureLogged ==
  pc = "exit" =>
    \A i \in 1..Len(ops) :
      (ops[i].op \in GitOps /\ ops[i].outcome # "ok")
        => /\ i = Len(ops)
           /\ log # <<>>
           /\ log[Len(log)] = (IF ops[i].outcome = "notfound"
                               THEN "git_not_found" ELSE "git_error")

\* the value the amended C5 expects in column f of the row of record rec
ExpectedOptional(rec, f) ==
  CASE f \in FloatDefaultFields ->
         IF f \in DOMAIN rec THEN PyFloat(rec[f].v) ELSE PyFloat(0)
    [] f = "starts" -> IF f \in DOMAIN rec THEN rec[f] ELSE PyInt(0)
    [] f = "news" -> IF f \in DOMAIN rec THEN rec[f] ELSE ""
    [] OTHER -> IF f \in DOMAIN rec THEN rec[f] ELSE PyNone

\* the statistic fields of a raw record (every key but the names and ids)
StatisticFields == RawFields \ {"first_name", "web_name", "team", "element_type"}

\* C5 as stated: whichever statistic field a record lacks, the table is
\* still produced and carries zero or the empty string for it.
C5_AnyAbsentFieldDefaults ==
  (Returned /\ HasArrays(response)
     /\ \A i \in 1..Len(response.data["elements"]) :
          {"first_name", "web_name", "team", "element_type"}
            \subseteq DOMAIN response.data["elements"][i])
    => LET es == response.data["elements"] IN
       /\ ~scraped_df.value.isNone
       /\ \A i \in 1..Len(es) : \A f \in StatisticFields \ DOMAIN es[i] :
            \E k \in 1..Len(scraped_df.value.rows) :
               scraped_df.value.rows[k][f]
                 \in (IF f = "news" THEN {""} ELSE {PyInt(0), PyFloat(0)})

\* C5 amended: a record lacking expected_goals, expected_assists,
\* expected_goal_involvements or expected_goals_conceded carries 0.0 for it,
\* one lacking starts carries 0, one lacking news the empty string, one
\* lacking a *_rank field None, and the record is produced; a record lacking
\* any other field the program reads makes scrape_data return None.
C5_OnlyOptionalFieldsDefault ==
  (Returned /\ HasArrays(response)) =>
    LET es == response.data["elements"]
        rows == scraped_df.value.rows
    IN  IF LacksRequired(response)
        THEN scraped_df = [raised |-> FALSE, value |-> None]
        ELSE /\ ~scraped_df.value.isNone
             /\ Len(rows) = Len(es)
             /\ \E perm \in Bijections(Len(es)) :
                  \A i \in 1..Len(es) :
                    /\ rows[perm[i]]["player_name"]
                         = <<es[i]["first_name"], " ", es[i]["web_name"]>>
                    /\ rows[perm[i]]["total_points"] = es[i]["total_points"]
                    /\ \A f \in OptionalFields :
                         rows[perm[i]][f] = ExpectedOptional(es[i], f)

C5_Witness ==
  /\ Returned
  /\ HasArrays(response)
  /\ ~scraped_df.value.isNone
  /\ \E i \in 1..Len(response.data["elements"]) :
       "starts" \notin DOMAIN response.data["elements"][i]
  /\ \E k \in 1..Len(scraped_df.value.rows) :
       scraped_df.value.rows[k]["starts"] = PyInt(0)

BotIdentity == [name |-> BotName, email |-> BotEmail]

\* C6 as stated: the identity is written to the repository's own
\* configuration before staging, and the global configuration never
\* receives it.
C6_IdentityLocalOnly ==
  /\ globalCfg.name # BotName
  /\ globalCfg.email # BotEmail
  /\ Attempted("add") => localCfg = BotIdentity

\* C6 amended: the identity (name and email) is written to the user's
\* global git configuration in every run that reaches staging, before any
\* staging or commit and also when the run ends with no changes to commit;
\* the repository's own configuration is left unchanged.
C6_IdentityGlobal ==
  /\ localCfg = NoIdentity
  /\ (Attempted("add") \/ Attempted("status") \/ Attempted("commit"))
       => /\ globalCfg = BotIdentity
          /\ SubSeq(OpNames, 1, 4) = <<"to_csv", "config_name", "config_email", "add">>
  /\ Ended("config_name", "ok") => globalCfg.name = BotName
  /\ ~Ended("config_name", "ok") => globalCfg \in {NoIdentity, DevIdentity}

C6_Witness ==
  /\ pc = "exit"
  /\ log = <<"saved", "no_changes">>
  /\ Ended("status", "ok")
  /\ globalCfg = BotIdentity
  /\ localCfg = NoIdentity

\* C7: a returned table has exactly one row per player element of the
\* payload; the result is the complete table or None.
C7_RowCount ==
  (Returned /\ ~scraped_df.value.isNone)
    => /\ HasArrays(response)
       /\ Len(scraped_df.value.rows) = Len(response.data["elements"])

C7_Witness ==
  /\ Returned
  /\ ~scraped_df.value.isNone
  /\ Len(scraped_df.value.rows) = MaxPlayers

\* C8: the rows of a returned table are in non-increasing order of
\* total_points, and they are the processed records, each as many times as
\* before the sort.
C8_SortedDescending ==
  /\ ~scraped_df.value.isNone
       => \A i \in 1..(Len(scraped_df.value.rows) - 1) :
            scraped_df.value.rows[i]["total_points"].v
              >= scraped_df.value.rows[i + 1]["total_points"].v
  /\ (Returned /\ ~scraped_df.value.isNone)
       => LET data == response.data
              unsorted == ProcessAll(data["elements"],
                                     DictOf(data["teams"], "name"),
                                     DictOf(data["element_types"], "singular_name_short")).rows
          IN  SeqToBag(scraped_df.value.rows) = SeqToBag(unsorted)

C8_Witness ==
  /\ Returned
  /\ ~scraped_df.value.isNone
  /\ Len(scraped_df.value.rows) >= 2
  /\ response.data["elements"][1]["total_points"].v
       < response.data["elements"][2]["total_points"].v
  /\ scraped_df.value.rows[1]["total_points"].v
       > scraped_df.value.rows[2]["total_points"].v

\* the name the array xs of the payload gives identifier id, or the sentinel
NameOrSentinel(xs, id, name) ==
  IF \E j \in 1..Len(xs) : xs[j].id = id
  THEN LET last == CHOOSE j \in 1..Len(xs) :
                     xs[j].id = id /\ \A k \in (j + 1)..Len(xs) : xs[k].id # id
       IN  xs[last][name]
  ELSE "N/A"

\* C9: every row carries the name its team id (position id) maps to, or
\* "N/A" when the id is in no entry of the array; a miss does not fail the
\* run.
C9_NamesResolved ==
  (Returned /\ HasArrays(response) /\ ~LacksRequired(response)) =>
    LET es == response.data["elements"]
        rows == scraped_df.value.rows
    IN  /\ ~scraped_df.value.isNone
        /\ Len(rows) = Len(es)
        /\ \E perm \in Bijections(Len(es)) :
             \A i \in 1..Len(es) :
               /\ rows[perm[i]]["player_name"]
                    = <<es[i]["first_name"], " ", es[i]["web_name"]>>
               /\ rows[perm[i]]["club_name"]
                    = NameOrSentinel(response.data["teams"], es[i]["team"], "name")
               /\ rows[perm[i]]["position_name"]
                    = NameOrSentinel(response.data["element_types"],
                                     es[i]["element_type"], "singular_name_short")

C9_Witness ==
  /\ Returned
  /\ ~scraped_df.value.isNone
  /\ \E k \in 1..Len(scraped_df.value.rows) :
       /\ scraped_df.value.rows[k]["club_name"] = "N/A"
       /\ scraped_df.value.rows[k]["position_name"] = "GKP"
  /\ \E k \in 1..Len(scraped_df.value.rows) :
       /\ scraped_df.value.rows[k]["club_name"] = "Aston Villa"
       /\ scraped_df.value.rows[k]["position_name"] = "N/A"

\* C10: no completed step is undone or repeated: after a successful write
\* the file keeps its new content whatever fails later; a failing commit
\* leaves the file staged and the history as it was; a failing push leaves
\* the new commit in the local history; write, add, commit and push each run
\* at most once.
C10_NoRollbackNoRetry ==
  /\ Ended("to_csv", "ok") => workfile = NewContent
  /\ Ended("add", "ok") => index = NewContent
  /\ Ended("commit", "nonzero")
       => /\ index = NewContent
          /\ workfile = NewContent
          /\ Len(history) = 1
          /\ remote = 1
  /\ Ended("push", "nonzero")
       => /\ Len(history) = 2
          /\ history[2].target = NewContent
          /\ remote = 1
  /\ \A op \in {"to_csv", "add", "commit", "push"} : TimesRun(op) <= 1

C10_Witness ==
  /\ pc = "exit"
  /\ Ended("commit", "nonzero")
  /\ index = NewContent
  /\ index # HeadTarget

====
